---- MODULE Spec2Model ----
(***************************************************************************)
(* Model of MCPClient (src/python/terminal-mcp-orchestrator/mcp_client.py):*)
(* the SSE listener thread(s), the correlation table (tool_events and      *)
(* tool_results), the session state, and caller threads running connect(), *)
(* invoke_tool() and disconnect().  Each labelled step is one point at     *)
(* which the Python interpreter may switch threads.                        *)
(***************************************************************************)
EXTENDS Integers, FiniteSets, Sequences, TLC

\* ---- bounds of the model -------------------------------------------------
MaxCalls == 2         \* invoke_tool calls (message ids generated)
MaxListeners == 2     \* listener threads started by connect()
MaxDisconnects == 1   \* disconnect() calls
MaxSessionCalls == 1  \* invoke_tool calls made while sessions come and go
MaxLines == 3         \* lines of the longest file read

\* Caller threads sharing one client: "main" owns the client's lifecycle
\* (connect, disconnect); "worker" invokes tools on it.
Threads == {"main", "worker"}
Owners == {"main"}
Invokers == {"worker"}
Listeners == 1..MaxListeners
MsgIds == 1..MaxCalls

\* client_id = None; the stream of listener l assigns the clientId l.
None == 0
\* An id no invoke_tool call of this client generated.
UnknownId == 0
Keys == {UnknownId} \cup MsgIds
NotPosted == -1

\* Shapes of a tool_result event's data, as invoke_tool's extraction sees it:
\*   "json": content.content[0].text holds JSON text
\*   "text": content.content[0].text holds text that is not JSON
\*   "flat": no content.content list (the result is the event itself)
Shapes == {"json", "text", "flat"}

\* What GET /tools may answer in its "tools" list: no tool, or one of two
\* different lists.
ToolLists == {"empty", "a", "b"}

NoData == [id |-> -1, shape |-> "none"]
NoEvent == [type |-> "none", id |-> -1, shape |-> "none"]

Ret(kind, cid, form, data) ==
    [kind |-> kind, cid |-> cid, form |-> form, data |-> data]
NoRet == Ret("none", None, "none", NoData)

\* read_file: no request made, and no dictionary returned yet.
NoRequest ==
    [lines |-> 0, newline |-> FALSE, start_line |-> {}, end_line |-> {},
     fn |-> "none"]
NoResponse ==
    [content |-> <<>>, startLine |-> 0, endLine |-> 0, totalLines |-> 0,
     done |-> FALSE]

VARIABLES
    client_id,          \* self.client_id
    connected,          \* self.connected
    running,            \* self.running
    connection_event,   \* self.connection_event (set flag; never cleared)
    sse_thread,         \* self.sse_thread (listener last started, or None)
    tool_events,        \* self.tool_events: id -> "absent" | "clear" | "set"
    tool_results,       \* self.tool_results: id -> data | NoData
    lpc,                \* listener thread position
    lev,                \* the event a listener is handling
    lgot,               \* whether a listener took up its connected event
    pc,                 \* caller thread position
    mid,                \* invoke_tool local message_id
    tres,               \* invoke_tool local tool_result
    ret,                \* what the call just completed returned (pc = "done")
    nextId,             \* message ids generated so far
    posted,             \* server side: id -> clientId of the POST received
    ndisc,              \* disconnect() calls so far
    lastLife,           \* the last completed connect()/disconnect(), with
                        \* the identity it returned or the one it closed
    result_shape,       \* the shape in which this server wraps its tool results
    tools_cache,        \* self.tools_cache: "unset" (None) or a list of tools
    request,            \* read_file: the file and the startLine/endLine asked
    response            \* read_file: the dictionary returned (NoResponse before)

vars == <<client_id, connected, running, connection_event, sse_thread,
          tool_events, tool_results, lpc, lev, lgot, pc, mid, tres, ret,
          nextId, posted, ndisc, lastLife, result_shape, tools_cache,
          request, response>>

session == <<client_id, connected, running, connection_event, sse_thread>>
table == <<tool_events, tool_results>>
listenerVars == <<lpc, lev, lgot>>
callerVars == <<pc, mid, tres, ret, nextId, ndisc, lastLife>>
server == <<posted, result_shape>>
reader == <<request, response>>

ClientInit ==
    /\ client_id = None
    /\ connected = FALSE
    /\ running = FALSE
    /\ connection_event = FALSE
    /\ sse_thread = None
    /\ tool_events = [k \in Keys |-> "absent"]
    /\ tool_results = [k \in Keys |-> NoData]
    /\ lpc = [l \in Listeners |-> "unstarted"]
    /\ lev = [l \in Listeners |-> NoEvent]
    /\ lgot = [l \in Listeners |-> FALSE]
    /\ pc = [t \in Threads |-> "idle"]
    /\ mid = [t \in Threads |-> UnknownId]
    /\ tres = [t \in Threads |-> NoData]
    /\ ret = [t \in Threads |-> NoRet]
    /\ nextId = 0
    /\ posted = [k \in MsgIds |-> NotPosted]
    /\ ndisc = 0
    /\ lastLife = [op |-> "none", cid |-> None]
    /\ result_shape \in Shapes
    /\ tools_cache = "unset"

\* The client with no read_file call under way.
Init == ClientInit /\ request = NoRequest /\ response = NoResponse

\* ---- correlation table operations ----------------------------------------
\* (a slip: the entry is not inserted before the request is sent)
RegisterNothing(events, id) == events
\* self.tool_events[message_id] = threading.Event()
RegisterEntry(events, id) == [events EXCEPT ![id] = "clear"]
\* (a slip: the cleanup empties the table instead of removing one entry)
DeregisterEvery(events, id) == [k \in DOMAIN events |-> "absent"]
\* del self.tool_events[message_id]
Deregister(events, id) == [events EXCEPT ![id] = "absent"]
\* (a slip: every pending entry is signalled, whatever the event's id)
SignalEvery(events, id) ==
    [k \in DOMAIN events |-> IF events[k] = "absent" THEN "absent" ELSE "set"]
\* self.tool_events[message_id].set()
SignalEntry(events, id) == [events EXCEPT ![id] = "set"]
\* (a slip: the id is read from a key the event does not carry, giving None)
StoreUnderNone(results, id, data) == [results EXCEPT ![UnknownId] = data]
\* self.tool_results[message_id] = data
StoreResult(results, id, data) == [results EXCEPT ![id] = data]
\* (a slip: the caller takes whichever result is stored, not its own)
LookupAny(results, id) ==
    IF \E k \in DOMAIN results : results[k] # NoData
    THEN results[CHOOSE k \in DOMAIN results : results[k] # NoData]
    ELSE NoData
\* self.tool_results.get(message_id)
LookupResult(results, id) == results[id]
\* if message_id in self.tool_results: del self.tool_results[message_id]
DropResult(results, id) == [results EXCEPT ![id] = NoData]

\* What invoke_tool returns for the stored tool_result (lines 178-189).
ExtractResult(data) ==
    IF data = NoData THEN Ret("no_result", None, "none", NoData)
    ELSE IF data.shape = "json" THEN Ret("result", None, "parsed", data)
    ELSE IF data.shape = "text" THEN Ret("result", None, "text", data)
    ELSE Ret("result", None, "event", data)

\* ---- the SSE listener thread (_sse_listener) ------------------------------
Started == {l \in Listeners : lpc[l] # "unstarted"}

\* Ids whose tool_result the server may push on the stream of listener l: the
\* invocations POSTed with that stream's clientId (once, or again as a
\* duplicate, at any later time), and an id this client never generated.
ResultIds(l) == {k \in MsgIds : posted[k] = l} \cup {UnknownId}

Event(type, id, shape) == [type |-> type, id |-> id, shape |-> shape]
\* data = json.loads(event.data), as far as invoke_tool looks at it
EventData(ev) == [id |-> ev.id, shape |-> ev.shape]

\* except Exception: running = False; connection_event.set(); the thread ends.
ListenerDies(l) ==
    /\ running' = FALSE
    /\ connection_event' = TRUE
    /\ lpc' = [lpc EXCEPT ![l] = "dead"]
    /\ lev' = [lev EXCEPT ![l] = NoEvent]

\* Transport failure: requests.get(.../sse) or raise_for_status() raises, or
\* the stream drops while the loop waits for the next event.
ListenerFail(l) ==
    /\ lpc[l] = "read"
    /\ ListenerDies(l)
    /\ UNCHANGED <<client_id, connected, sse_thread, table, lgot, callerVars,
                   server, tools_cache,
                   reader>>

\* for event in client.events(): if not self.running: break
RecvStopped(l) ==
    /\ lpc[l] = "read"
    /\ ~running
    /\ lpc' = [lpc EXCEPT ![l] = "dead"]
    /\ UNCHANGED <<session, table, lev, lgot, callerVars, server, tools_cache,
                   reader>>

\* The first event of a stream is {"type": "connected", "clientId": l}.
RecvConnected(l) ==
    /\ lpc[l] = "read"
    /\ running
    /\ ~lgot[l]
    /\ lev' = [lev EXCEPT ![l] = Event("connected", l, "none")]
    /\ lpc' = [lpc EXCEPT ![l] = "l91"]
    /\ lgot' = [lgot EXCEPT ![l] = TRUE]
    /\ UNCHANGED <<session, table, callerVars, server, tools_cache,
                   reader>>

\* {"type": "tool_result", "id": k, ...}
RecvToolResult(l) ==
    /\ lpc[l] = "read"
    /\ running
    /\ lgot[l]
    /\ \E k \in ResultIds(l) :
          lev' = [lev EXCEPT ![l] = Event("tool_result", k, result_shape)]
    /\ lpc' = [lpc EXCEPT ![l] = "l101"]
    /\ UNCHANGED <<session, table, lgot, callerVars, server, tools_cache,
                   reader>>

\* Any other event: {"type": "error", "id": k, ...}, data that is not JSON
\* ("garbage"), or JSON that is not an object ("nonobject", such as [1]).
OtherIds(l, type) == IF type = "error" THEN ResultIds(l) ELSE {UnknownId}
RecvOther(l) ==
    /\ lpc[l] = "read"
    /\ running
    /\ lgot[l]
    /\ \E type \in {"error", "garbage", "nonobject"} :
          \E k \in OtherIds(l, type) :
              lev' = [lev EXCEPT ![l] = Event(type, k, "none")]
    /\ lpc' = [lpc EXCEPT ![l] = "l87"]
    /\ UNCHANGED <<session, table, lgot, callerVars, server, tools_cache,
                   reader>>

\* data = json.loads(event.data); except json.JSONDecodeError: print(...)
ParseOther(l) ==
    /\ lpc[l] = "l87"
    /\ IF lev[l].type = "garbage"
       THEN /\ lpc' = [lpc EXCEPT ![l] = "read"]
            /\ lev' = [lev EXCEPT ![l] = NoEvent]
       ELSE /\ lpc' = [lpc EXCEPT ![l] = "l90"]
            /\ UNCHANGED lev
    /\ UNCHANGED <<session, table, lgot, callerVars, server, tools_cache,
                   reader>>

\* if data.get("type") == "connected": ... elif ... == "tool_result": ...
\* A value that is not an object has no get(): the AttributeError is caught
\* by the outer except Exception.  An "error" event matches neither branch.
DispatchOther(l) ==
    /\ lpc[l] = "l90"
    /\ IF lev[l].type = "nonobject"
       THEN ListenerDies(l)
       ELSE /\ lpc' = [lpc EXCEPT ![l] = "read"]
            /\ lev' = [lev EXCEPT ![l] = NoEvent]
            /\ UNCHANGED <<running, connection_event>>
    /\ UNCHANGED <<client_id, connected, sse_thread, table, lgot, callerVars,
                   server, tools_cache,
                   reader>>

\* self.client_id = data.get("clientId")
SetClientId(l) ==
    /\ lpc[l] = "l91"
    /\ client_id' = lev[l].id
    /\ lpc' = [lpc EXCEPT ![l] = "l92"]
    /\ UNCHANGED <<connected, running, connection_event, sse_thread, table,
                   lev, lgot, callerVars, server, tools_cache,
                   reader>>

\* self.connected = True
SetConnected(l) ==
    /\ lpc[l] = "l92"
    /\ connected' = TRUE
    /\ lpc' = [lpc EXCEPT ![l] = "l94"]
    /\ UNCHANGED <<client_id, running, connection_event, sse_thread, table,
                   lev, lgot, callerVars, server, tools_cache,
                   reader>>

\* self.connection_event.set(); back to the loop
SignalHandshake(l) ==
    /\ lpc[l] = "l94"
    /\ connection_event' = TRUE
    /\ lpc' = [lpc EXCEPT ![l] = "read"]
    /\ lev' = [lev EXCEPT ![l] = NoEvent]
    /\ UNCHANGED <<client_id, connected, running, sse_thread, table, lgot,
                   callerVars, server, tools_cache,
                   reader>>

\* (a slip: the entry is signalled without the data having been stored)
ListenerSkipStore(l) ==
    /\ lpc[l] = "l101"
    /\ lpc' = [lpc EXCEPT ![l] = "l104"]
    /\ UNCHANGED <<session, table, lev, lgot, callerVars, server, tools_cache,
                   reader>>
\* self.tool_results[message_id] = data
ListenerStore(l) ==
    /\ lpc[l] = "l101"
    /\ tool_results' = StoreResult(tool_results, lev[l].id, EventData(lev[l]))
    /\ lpc' = [lpc EXCEPT ![l] = "l104"]
    /\ UNCHANGED <<session, tool_events, lev, lgot, callerVars, server, tools_cache,
                   reader>>

\* (a slip: the listener waits until a caller has registered the id)
ListenerAwaitsEntry(l) ==
    /\ lpc[l] = "l104"
    /\ tool_events[lev[l].id] # "absent"
    /\ lpc' = [lpc EXCEPT ![l] = "l105"]
    /\ UNCHANGED <<session, table, lev, lgot, callerVars, server, tools_cache,
                   reader>>
\* if message_id in self.tool_events: (when not, back to the loop)
ListenerCheck(l) ==
    /\ lpc[l] = "l104"
    /\ IF tool_events[lev[l].id] # "absent"
       THEN /\ lpc' = [lpc EXCEPT ![l] = "l105"]
            /\ UNCHANGED lev
       ELSE /\ lpc' = [lpc EXCEPT ![l] = "read"]
            /\ lev' = [lev EXCEPT ![l] = NoEvent]
    /\ UNCHANGED <<session, table, lgot, callerVars, server, tools_cache,
                   reader>>

\* self.tool_events[message_id].set(); a KeyError when the entry has been
\* deleted since the check is caught by the outer except Exception.
ListenerSignal(l) ==
    /\ lpc[l] = "l105"
    /\ IF tool_events[lev[l].id] # "absent"
       THEN /\ tool_events' = SignalEntry(tool_events, lev[l].id)
            /\ lpc' = [lpc EXCEPT ![l] = "read"]
            /\ lev' = [lev EXCEPT ![l] = NoEvent]
            /\ UNCHANGED <<running, connection_event>>
       ELSE /\ ListenerDies(l)
            /\ UNCHANGED tool_events
    /\ UNCHANGED <<client_id, connected, sse_thread, tool_results, lgot,
                   callerVars, server, tools_cache,
                   reader>>

\* ---- caller threads ------------------------------------------------------
\* A call returns r to its caller.
Returns(t, r) ==
    /\ pc' = [pc EXCEPT ![t] = "done"]
    /\ ret' = [ret EXCEPT ![t] = r]

\* The caller has taken the returned value and is ready for its next call.
Finish(t) ==
    /\ pc[t] = "done"
    /\ pc' = [pc EXCEPT ![t] = "idle"]
    /\ ret' = [ret EXCEPT ![t] = NoRet]
    /\ mid' = [mid EXCEPT ![t] = UnknownId]
    /\ tres' = [tres EXCEPT ![t] = NoData]
    /\ UNCHANGED <<session, table, listenerVars, nextId, ndisc, lastLife,
                   server, tools_cache,
                   reader>>

\* ---- connect() -----------------------------------------------------------
Connecting == {t \in Threads : pc[t] \in {"c61", "c62", "c67", "c70"}}

\* if self.connected: return self.client_id
ConnectFast(t) ==
    /\ pc[t] = "idle"
    /\ connected
    /\ Returns(t, Ret("connect_ok", client_id, "none", NoData))
    /\ lastLife' = [op |-> "connect_ok", cid |-> client_id]
    /\ UNCHANGED <<session, table, listenerVars, mid, tres, nextId, ndisc,
                   server, tools_cache,
                   reader>>

\* not connected: go on to start a listener (while the model has one left)
ConnectBegin(t) ==
    /\ pc[t] = "idle"
    /\ ~connected
    /\ Cardinality(Started)
         + Cardinality({u \in Threads : pc[u] \in {"c61", "c62"}}) < MaxListeners
    /\ pc' = [pc EXCEPT ![t] = "c61"]
    /\ UNCHANGED <<session, table, listenerVars, mid, tres, ret, nextId,
                   ndisc, lastLife, server, tools_cache,
                   reader>>

\* self.running = True
ConnectRun(t) ==
    /\ pc[t] = "c61"
    /\ running' = TRUE
    /\ pc' = [pc EXCEPT ![t] = "c62"]
    /\ UNCHANGED <<client_id, connected, connection_event, sse_thread, table,
                   listenerVars, mid, tres, ret, nextId, ndisc, lastLife,
                   server, tools_cache,
                   reader>>

\* self.sse_thread = threading.Thread(...); self.sse_thread.start(): the
\* listener issues its GET and waits for the stream's events.
ConnectStart(t) ==
    /\ pc[t] = "c62"
    /\ LET l == CHOOSE x \in Listeners \ Started :
                   \A y \in Listeners \ Started : x <= y
       IN /\ lpc' = [lpc EXCEPT ![l] = "read"]
          /\ sse_thread' = l
    /\ pc' = [pc EXCEPT ![t] = "c67"]
    /\ UNCHANGED <<client_id, connected, running, connection_event, table,
                   lev, lgot, mid, tres, ret, nextId, ndisc, lastLife,
                   server, tools_cache,
                   reader>>

\* self.connection_event.wait(timeout) returned True
ConnectWaitOk(t) ==
    /\ pc[t] = "c67"
    /\ connection_event
    /\ pc' = [pc EXCEPT ![t] = "c70"]
    /\ UNCHANGED <<session, table, listenerVars, mid, tres, ret, nextId,
                   ndisc, lastLife, server, tools_cache,
                   reader>>

\* the wait timed out: raise TimeoutError
ConnectTimeout(t) ==
    /\ pc[t] = "c67"
    /\ ~connection_event
    /\ Returns(t, Ret("connect_timeout", None, "none", NoData))
    /\ lastLife' = [op |-> "connect_failed", cid |-> None]
    /\ UNCHANGED <<session, table, listenerVars, mid, tres, nextId, ndisc,
                   server, tools_cache,
                   reader>>

\* return self.client_id
ConnectReturn(t) ==
    /\ pc[t] = "c70"
    /\ Returns(t, Ret("connect_ok", client_id, "none", NoData))
    /\ lastLife' = [op |-> "connect_ok", cid |-> client_id]
    /\ UNCHANGED <<session, table, listenerVars, mid, tres, nextId, ndisc,
                   server, tools_cache,
                   reader>>

\* ---- disconnect() --------------------------------------------------------
\* self.running = False
DisconnectBegin(t) ==
    /\ pc[t] = "idle"
    /\ ndisc < MaxDisconnects
    /\ ndisc' = ndisc + 1
    /\ running' = FALSE
    /\ pc' = [pc EXCEPT ![t] = "d226"]
    /\ UNCHANGED <<client_id, connected, connection_event, sse_thread, table,
                   listenerVars, mid, tres, ret, nextId, lastLife, server, tools_cache,
                   reader>>

\* if self.sse_thread: self.sse_thread.join(timeout=1) returns, when the
\* listener has ended or after one second, whichever comes first; then
\* self.connected = False
DisconnectFlag(t) ==
    /\ pc[t] = "d226"
    /\ connected' = FALSE
    /\ pc' = [pc EXCEPT ![t] = "d229"]
    /\ UNCHANGED <<client_id, running, connection_event, sse_thread, table,
                   listenerVars, mid, tres, ret, nextId, ndisc, lastLife,
                   server, tools_cache,
                   reader>>

\* (a slip: disconnect() wakes every pending request)
DisconnectCancels(t) ==
    /\ pc[t] = "d229"
    /\ client_id' = None
    /\ tools_cache' = "unset"
    /\ tool_events' = [k \in DOMAIN tool_events |->
                           IF tool_events[k] = "absent" THEN "absent"
                           ELSE "set"]
    /\ Returns(t, Ret("disconnected", None, "none", NoData))
    /\ lastLife' = [op |-> "disconnect",
                     cid |-> IF lastLife.op = "connect_ok" THEN lastLife.cid
                             ELSE None]
    /\ UNCHANGED <<connected, running, connection_event, sse_thread,
                   tool_results, listenerVars, mid, tres, nextId, ndisc,
                   server,
                   reader>>
\* self.client_id = None; self.tools_cache = None; disconnect() returns
DisconnectClear(t) ==
    /\ pc[t] = "d229"
    /\ client_id' = None
    /\ Returns(t, Ret("disconnected", None, "none", NoData))
    /\ lastLife' = [op |-> "disconnect",
                     cid |-> IF lastLife.op = "connect_ok" THEN lastLife.cid
                             ELSE None]
    /\ tools_cache' = "unset"
    /\ UNCHANGED <<connected, running, connection_event, sse_thread, table,
                   listenerVars, mid, tres, nextId, ndisc, server,
                   reader>>

\* ---- invoke_tool() -------------------------------------------------------
\* message_id = f"msg-{uuid.uuid4()}" (a fresh id);
\* self.tool_events[message_id] = threading.Event()
InvokeBegin(t) ==
    /\ pc[t] = "idle"
    /\ nextId < MaxCalls
    /\ nextId' = nextId + 1
    /\ mid' = [mid EXCEPT ![t] = nextId + 1]
    /\ tool_events' = RegisterEntry(tool_events, nextId + 1)
    /\ pc' = [pc EXCEPT ![t] = "i193"]
    /\ UNCHANGED <<session, tool_results, listenerVars, tres, ret, ndisc,
                   lastLife, server, tools_cache,
                   reader>>

\* _send_tool_invocation: if not self.client_id: return {"error": "Not
\* connected..."}; invoke_tool: if "error" in result: return result
InvokeNotConnected(t) ==
    /\ pc[t] = "i193"
    /\ client_id = None
    /\ Returns(t, Ret("not_connected", None, "none", NoData))
    /\ UNCHANGED <<session, table, listenerVars, mid, tres, nextId, ndisc,
                   lastLife, server, tools_cache,
                   reader>>

\* self.client_id is set: go on to build the payload
InvokeBuild(t) ==
    /\ pc[t] = "i193"
    /\ client_id # None
    /\ pc' = [pc EXCEPT ![t] = "i203"]
    /\ UNCHANGED <<session, table, listenerVars, mid, tres, ret, nextId,
                   ndisc, lastLife, server, tools_cache,
                   reader>>

\* payload = {..., "clientId": self.client_id}; requests.post(.../messages)
\* is acknowledged without an "error" key: the server has the invocation and
\* computes its result.
InvokePostOk(t) ==
    /\ pc[t] = "i203"
    /\ posted' = [posted EXCEPT ![mid[t]] = client_id]
    /\ pc' = [pc EXCEPT ![t] = "i165"]
    /\ UNCHANGED <<session, table, listenerVars, mid, tres, ret, nextId,
                   ndisc, lastLife, result_shape, tools_cache,
                   reader>>

\* The acknowledgment embeds the tool's result (and has no "error" key): the
\* server has answered and pushes nothing on the stream; invoke_tool drops
\* the acknowledgment and goes on to wait.
InvokePostEmbedded(t) ==
    /\ pc[t] = "i203"
    /\ pc' = [pc EXCEPT ![t] = "i165"]
    /\ UNCHANGED <<session, table, listenerVars, mid, tres, ret, nextId,
                   ndisc, lastLife, server, tools_cache,
                   reader>>

\* the POST raises (return {"error": str(e)}) or its acknowledgment carries
\* an "error" key; invoke_tool: if "error" in result: return result
InvokePostError(t) ==
    /\ pc[t] = "i203"
    /\ \E kind \in {"transport_error", "ack_error"} :
          Returns(t, Ret(kind, None, "none", NoData))
    /\ UNCHANGED <<session, table, listenerVars, mid, tres, nextId, ndisc,
                   lastLife, server, tools_cache,
                   reader>>

\* self.tool_events[message_id].wait(timeout) returned True
InvokeWaitSignalled(t) ==
    /\ pc[t] = "i165"
    /\ tool_events[mid[t]] = "set"
    /\ pc' = [pc EXCEPT ![t] = "i170"]
    /\ UNCHANGED <<session, table, listenerVars, mid, tres, ret, nextId,
                   ndisc, lastLife, server, tools_cache,
                   reader>>

\* (a slip: a timed-out wait sends the request again)
InvokeRetryPost(t) ==
    /\ pc[t] = "i165"
    /\ tool_events[mid[t]] = "clear"
    /\ pc' = [pc EXCEPT ![t] = "i203"]
    /\ UNCHANGED <<session, table, listenerVars, mid, tres, ret, nextId,
                   ndisc, lastLife, server, tools_cache,
                   reader>>
\* the wait timed out with the event not set
InvokeWaitTimeout(t) ==
    /\ pc[t] = "i165"
    /\ tool_events[mid[t]] = "clear"
    /\ pc' = [pc EXCEPT ![t] = "i166"]
    /\ UNCHANGED <<session, table, listenerVars, mid, tres, ret, nextId,
                   ndisc, lastLife, server, tools_cache,
                   reader>>

\* del self.tool_events[message_id]; return {"error": "Timeout waiting..."}
InvokeTimeoutReturn(t) ==
    /\ pc[t] = "i166"
    /\ tool_events' = Deregister(tool_events, mid[t])
    /\ Returns(t, Ret("timeout", None, "none", NoData))
    /\ UNCHANGED <<session, tool_results, listenerVars, mid, tres, nextId,
                   ndisc, lastLife, server, tools_cache,
                   reader>>

\* tool_result = self.tool_results.get(message_id)
InvokeGet(t) ==
    /\ pc[t] = "i170"
    /\ tres' = [tres EXCEPT ![t] = LookupResult(tool_results, mid[t])]
    /\ pc' = [pc EXCEPT ![t] = "i173"]
    /\ UNCHANGED <<session, table, listenerVars, mid, ret, nextId, ndisc,
                   lastLife, server, tools_cache,
                   reader>>

\* del self.tool_events[message_id]
InvokeDel(t) ==
    /\ pc[t] = "i173"
    /\ tool_events' = Deregister(tool_events, mid[t])
    /\ pc' = [pc EXCEPT ![t] = "i174"]
    /\ UNCHANGED <<session, tool_results, listenerVars, mid, tres, ret,
                   nextId, ndisc, lastLife, server, tools_cache,
                   reader>>

\* if message_id in self.tool_results: del self.tool_results[message_id];
\* return the extracted content
InvokeResultReturn(t) ==
    /\ pc[t] = "i174"
    /\ tool_results' = DropResult(tool_results, mid[t])
    /\ Returns(t, ExtractResult(tres[t]))
    /\ UNCHANGED <<session, tool_events, listenerVars, mid, tres, nextId,
                   ndisc, lastLife, server, tools_cache,
                   reader>>

\* ---- get_tools() and get_server_info() ------------------------------------
\* if self.tools_cache: (None and the empty list are both false)
Truthy(cache) == cache \notin {"unset", "empty"}

\* if self.tools_cache: return self.tools_cache
GetToolsCached(t) ==
    /\ pc[t] = "idle"
    /\ Truthy(tools_cache)
    /\ Returns(t, Ret("tools_cached", None, tools_cache, NoData))
    /\ UNCHANGED <<session, table, listenerVars, mid, tres, nextId, ndisc,
                   lastLife, server, tools_cache,
                   reader>>

\* (a slip: the fetch is made only with a session identity)
GetToolsNeedsSession(t) ==
    /\ pc[t] = "idle"
    /\ ~Truthy(tools_cache)
    /\ client_id # None
    /\ pc' = [pc EXCEPT ![t] = "g132"]
    /\ UNCHANGED <<session, table, listenerVars, mid, tres, ret, nextId,
                   ndisc, lastLife, server, tools_cache,
                   reader>>
\* the cache is not used: go on to GET /tools
GetToolsBegin(t) ==
    /\ pc[t] = "idle"
    /\ ~Truthy(tools_cache)
    /\ pc' = [pc EXCEPT ![t] = "g132"]
    /\ UNCHANGED <<session, table, listenerVars, mid, tres, ret, nextId,
                   ndisc, lastLife, server, tools_cache,
                   reader>>

\* requests.get(.../tools) answers; tools = data.get("tools", []);
\* self.tools_cache = tools; return tools
GetToolsFetch(t) ==
    /\ pc[t] = "g132"
    /\ \E tools \in ToolLists :
          /\ tools_cache' = tools
          /\ Returns(t, Ret("tools_fetched", None, tools, NoData))
    /\ UNCHANGED <<session, table, listenerVars, mid, tres, nextId, ndisc,
                   lastLife, server,
                   reader>>

\* (a slip: the failure's empty list is stored in the cache)
GetToolsFailCached(t) ==
    /\ pc[t] = "g132"
    /\ tools_cache' = "empty"
    /\ Returns(t, Ret("tools_failed", None, "empty", NoData))
    /\ UNCHANGED <<session, table, listenerVars, mid, tres, nextId, ndisc,
                   lastLife, server,
                   reader>>
\* the GET raises: except Exception: return []
GetToolsFail(t) ==
    /\ pc[t] = "g132"
    /\ Returns(t, Ret("tools_failed", None, "empty", NoData))
    /\ UNCHANGED <<session, table, listenerVars, mid, tres, nextId, ndisc,
                   lastLife, server, tools_cache,
                   reader>>

\* get_server_info(): GET /info; return response.json(), or {} on a failure
GetServerInfo(t) ==
    /\ pc[t] = "idle"
    /\ \E kind \in {"info", "info_failed"} :
          Returns(t, Ret(kind, None, "none", NoData))
    /\ UNCHANGED <<session, table, listenerVars, mid, tres, nextId, ndisc,
                   lastLife, server, tools_cache,
                   reader>>

\* ---- the system ----------------------------------------------------------
ListenerStep(l) ==
    \/ ListenerFail(l)
    \/ RecvStopped(l)
    \/ RecvConnected(l)
    \/ RecvToolResult(l)
    \/ RecvOther(l)
    \/ ParseOther(l)
    \/ DispatchOther(l)
    \/ SetClientId(l)
    \/ SetConnected(l)
    \/ SignalHandshake(l)
    \/ ListenerStore(l)
    \/ ListenerCheck(l)
    \/ ListenerSignal(l)

\* The listener on a stream that carries the connected event and tool
\* results only.
ListenerOnResults(l) ==
    \/ ListenerFail(l)
    \/ RecvStopped(l)
    \/ RecvConnected(l)
    \/ RecvToolResult(l)
    \/ SetClientId(l)
    \/ SetConnected(l)
    \/ SignalHandshake(l)
    \/ ListenerStore(l)
    \/ ListenerCheck(l)
    \/ ListenerSignal(l)

ConnectStep(t) ==
    \/ ConnectFast(t)
    \/ ConnectBegin(t)
    \/ ConnectRun(t)
    \/ ConnectStart(t)
    \/ ConnectWaitOk(t)
    \/ ConnectTimeout(t)
    \/ ConnectReturn(t)

DisconnectStep(t) ==
    \/ DisconnectBegin(t)
    \/ DisconnectFlag(t)
    \/ DisconnectClear(t)

\* invoke_tool against a server that answers every invocation on the stream.
InvokeStep(t) ==
    \/ InvokeBegin(t)
    \/ InvokeNotConnected(t)
    \/ InvokeBuild(t)
    \/ InvokePostOk(t)
    \/ InvokePostError(t)
    \/ InvokeWaitSignalled(t)
    \/ InvokeWaitTimeout(t)
    \/ InvokeTimeoutReturn(t)
    \/ InvokeGet(t)
    \/ InvokeDel(t)
    \/ InvokeResultReturn(t)

\* invoke_tool against a server that answers on the stream or in the
\* acknowledgment.
InvokeInSession(t) ==
    \/ nextId < MaxSessionCalls /\ InvokeBegin(t)
    \/ InvokeNotConnected(t)
    \/ InvokeBuild(t)
    \/ InvokePostOk(t)
    \/ InvokePostEmbedded(t)
    \/ InvokePostError(t)
    \/ InvokeWaitSignalled(t)
    \/ InvokeWaitTimeout(t)
    \/ InvokeTimeoutReturn(t)
    \/ InvokeGet(t)
    \/ InvokeDel(t)
    \/ InvokeResultReturn(t)

\* One client shared by the owner of its lifecycle and a tool-invoking thread.
Next ==
    \/ \E l \in Listeners : ListenerStep(l)
    \/ \E t \in Owners : ConnectStep(t)
    \/ \E t \in Owners : DisconnectStep(t)
    \/ \E t \in Invokers : InvokeInSession(t)
    \/ \E t \in Threads : Finish(t)

Spec == Init /\ [][Next]_vars

ConnectOnce(t) ==
    \/ ConnectFast(t)
    \/ Started = {} /\ ConnectBegin(t)
    \/ ConnectRun(t)
    \/ ConnectStart(t)
    \/ ConnectWaitOk(t)
    \/ ConnectTimeout(t)
    \/ ConnectReturn(t)

\* One session: the owner connects once and disconnects at the end; both
\* threads invoke tools, concurrently with each other and with the listener;
\* the stream carries the connected event and tool results.
NextCalls ==
    \/ \E l \in Listeners : ListenerOnResults(l)
    \/ \E t \in Owners : ConnectOnce(t)
    \/ \E t \in Owners : DisconnectStep(t)
    \/ \E t \in Threads : InvokeStep(t)
    \/ \E t \in Threads : Finish(t)

SpecCalls == Init /\ [][NextCalls]_vars

\* Scheduling: a thread that is inside a call, and a listener that is
\* handling an event, is not held back for ever; a wait with a timeout ends.
\* Nothing is assumed of the server: no event need ever arrive, and the POST,
\* which requests.post makes without a timeout, need never be answered.
InCall(t) == pc[t] \notin {"idle", "done"}
CallProgress(t) ==
    /\ InCall(t)
    /\ pc[t] # "i203"
    /\ (ConnectOnce(t) \/ DisconnectStep(t) \/ InvokeInSession(t))
Handling(l) == lpc[l] \notin {"unstarted", "read", "dead"}
ListenerProgress(l) == Handling(l) /\ ListenerOnResults(l)

\* One session: the owner connects once and disconnects, the other thread
\* invokes a tool; the stream carries the connected event and tool results.
NextSession ==
    \/ \E l \in Listeners : ListenerOnResults(l)
    \/ \E t \in Owners : ConnectOnce(t)
    \/ \E t \in Owners : DisconnectStep(t)
    \/ \E t \in Invokers : InvokeInSession(t)
    \/ \E t \in Threads : Finish(t)

FairSession ==
    /\ Init /\ [][NextSession]_vars
    /\ \A t \in Threads : WF_vars(CallProgress(t))
    /\ \A l \in Listeners : WF_vars(ListenerProgress(l))

\* invoke_tool's first two lines when uuid.uuid4() is not taken to be free of
\* collisions: message_id may be an id already generated.
InvokeBeginAny(t) ==
    /\ pc[t] = "idle"
    /\ \E k \in MsgIds :
          /\ mid' = [mid EXCEPT ![t] = k]
          /\ tool_events' = RegisterEntry(tool_events, k)
    /\ pc' = [pc EXCEPT ![t] = "i193"]
    /\ UNCHANGED <<session, tool_results, listenerVars, tres, ret, nextId,
                   ndisc, lastLife, server, tools_cache,
                   reader>>

\* Calls on a client that was never connected, with ids that may collide.
NextCollide ==
    \/ \E t \in Threads : InvokeBeginAny(t)
    \/ \E t \in Threads : InvokeNotConnected(t)
    \/ \E t \in Threads : Finish(t)

SpecCollide == Init /\ [][NextCollide]_vars

MetadataStep(t) ==
    \/ GetToolsCached(t)
    \/ GetToolsBegin(t)
    \/ GetToolsFetch(t)
    \/ GetToolsFail(t)
    \/ GetServerInfo(t)

\* One session in which the owner also fetches the server's metadata, before,
\* during and after the session, while the other thread invokes a tool.
NextTools ==
    \/ \E l \in Listeners : ListenerOnResults(l)
    \/ \E t \in Owners : ConnectOnce(t)
    \/ \E t \in Owners : DisconnectStep(t)
    \/ \E t \in Invokers : InvokeInSession(t)
    \/ \E t \in Owners : MetadataStep(t)
    \/ \E t \in Threads : Finish(t)

SpecTools == Init /\ [][NextTools]_vars

\* ---- read_file (tools/read_file.py, localexecution/orchestrator.py) -------
Min(a, b) == IF a <= b THEN a ELSE b
Max(a, b) == IF a >= b THEN a ELSE b

\* An Optional[int] parameter: {} is None, {v} is the integer v.
Optional(S) == {{}} \cup {{v} : v \in S}
IsNone(o) == o = {}
ValueOf(o) == CHOOSE v \in o : TRUE

\* The startLine/endLine values a caller may pass: absent, inside the file,
\* before its first line or past its last.
LineArgs == Optional(-1..(MaxLines + 1))

\* f.readlines() of a file of n lines: line i (0-based) is at index i + 1.
\* The last line ends with a newline or not (newline); an empty file has no
\* line.
FileLines(n) == [i \in 1..n |-> i - 1]
Requests ==
    [lines : 0..MaxLines, newline : BOOLEAN, start_line : LineArgs,
     end_line : LineArgs, fn : {"read_file_lines", "execute"}]

\* Python's seq[a:b]: a negative index counts from the end, and both are
\* clipped to the sequence.
SliceIndex(i, n) == IF i < 0 THEN Max(i + n, 0) ELSE Min(i, n)
Slice(seq, a, b) ==
    SubSeq(seq, SliceIndex(a, Len(seq)) + 1, SliceIndex(b, Len(seq)))

\* read_file_lines(file_path, encoding, start_line, end_line)
read_file_lines(n, start, end) ==
    LET lines == FileLines(n)
        total_lines == Len(lines)
        start0 == IF IsNone(start) THEN 0 ELSE ValueOf(start)
        end0 == IF IsNone(end) THEN total_lines - 1 ELSE ValueOf(end)
        start_line == Max(0, Min(start0, total_lines - 1))
        end_line == Max(start_line, Min(end0, total_lines - 1))
    IN [content |-> Slice(lines, start_line, end_line + 1),
        startLine |-> start_line, endLine |-> end_line,
        totalLines |-> total_lines, done |-> TRUE]

\* content.count('\n') + (1 if content else 0) of the whole file's text
CountLines(n, newline) ==
    IF n = 0 THEN 0 ELSE (IF newline THEN n ELSE n - 1) + 1

\* execute(parameters): the lines asked when startLine or endLine is given,
\* the entire file otherwise
execute(n, newline, start, end) ==
    IF ~IsNone(start) \/ ~IsNone(end)
    THEN read_file_lines(n, start, end)
    ELSE LET total_lines == CountLines(n, newline)
         IN [content |-> FileLines(n), startLine |-> 0,
             endLine |-> total_lines - 1, totalLines |-> total_lines,
             done |-> TRUE]

\* A read_file request is served.
ReadFile ==
    /\ ~response.done
    /\ request.fn # "none"
    /\ response' = IF request.fn = "read_file_lines"
                   THEN read_file_lines(request.lines, request.start_line,
                                        request.end_line)
                   ELSE execute(request.lines, request.newline,
                                request.start_line, request.end_line)
    /\ UNCHANGED <<session, table, listenerVars, callerVars, server,
                   tools_cache, request>>

\* One read_file request on one file, for every file and every line range.
InitLines ==
    /\ ClientInit
    /\ request \in {r \in Requests : r.lines = 0 => ~r.newline}
    /\ response = NoResponse

NextLines == ReadFile

SpecLines == InitLines /\ [][NextLines]_vars

\* ---- execute_remote_tool() (orchestrator.py) ------------------------------
\* print(f"Parameters: {json.dumps(parameters, indent=2)}") raises TypeError
\* for parameters that JSON cannot encode, before the try of
\* _send_tool_invocation: the exception leaves invoke_tool.
InvokeRaises(t) ==
    /\ pc[t] = "i203"
    /\ Returns(t, Ret("raised", None, "none", NoData))
    /\ UNCHANGED <<session, table, listenerVars, mid, tres, nextId, ndisc,
                   lastLife, server, tools_cache,
                   reader>>

\* client = MCPClient(server_url); client.connect()
RemoteConnect(t) == lastLife.op = "none" /\ ConnectBegin(t)

\* What ends execute_remote_tool: an exception of connect() or invoke_tool
\* (return {"error": ...}), or the return of disconnect() (return result).
RemoteEnds == {"connect_timeout", "raised", "disconnected"}
RemoteReturned(t) == pc[t] = "done" /\ ret[t].kind \in RemoteEnds

\* a call returned without an exception: the function goes on to the next
RemoteProceed(t) == ret[t].kind \notin RemoteEnds /\ Finish(t)

\* result = client.invoke_tool(tool_name, parameters)
RemoteInvoke(t) == lastLife.op = "connect_ok" /\ nextId = 0 /\ InvokeBegin(t)

\* client.disconnect()
RemoteDisconnect(t) == nextId = 1 /\ DisconnectBegin(t)

RemoteStep(t) ==
    \/ RemoteConnect(t)
    \/ ConnectRun(t)
    \/ ConnectStart(t)
    \/ ConnectWaitOk(t)
    \/ ConnectTimeout(t)
    \/ ConnectReturn(t)
    \/ RemoteProceed(t)
    \/ RemoteInvoke(t)
    \/ InvokeNotConnected(t)
    \/ InvokeBuild(t)
    \/ InvokeRaises(t)
    \/ InvokePostOk(t)
    \/ InvokePostEmbedded(t)
    \/ InvokePostError(t)
    \/ InvokeWaitSignalled(t)
    \/ InvokeWaitTimeout(t)
    \/ InvokeTimeoutReturn(t)
    \/ InvokeGet(t)
    \/ InvokeDel(t)
    \/ InvokeResultReturn(t)
    \/ RemoteDisconnect(t)
    \/ DisconnectFlag(t)
    \/ DisconnectClear(t)

\* One execute_remote_tool call on its own client, with the client's listener.
NextRemote ==
    \/ \E l \in Listeners : ListenerStep(l)
    \/ \E t \in Owners : RemoteStep(t)

SpecRemote == Init /\ [][NextRemote]_vars

TypeOK ==
    /\ client_id \in {None} \cup Listeners
    /\ connected \in BOOLEAN /\ running \in BOOLEAN /\ connection_event \in BOOLEAN
    /\ \A k \in Keys : tool_events[k] \in {"absent", "clear", "set"}
    /\ nextId \in 0..MaxCalls
    /\ tools_cache \in {"unset"} \cup ToolLists

\* ---- claims --------------------------------------------------------------
\* Steps of a caller and of a listener, as seen from outside.
TimeoutReturnStep(t) == pc[t] = "i166" /\ pc'[t] = "done"
DispatchFailStep(t) == pc[t] \in {"i193", "i203"} /\ pc'[t] = "done"
PostStep(t) == pc[t] = "i203" /\ pc'[t] # "i203"
HandlingResult(l) == lpc[l] \in {"l101", "l104", "l105"}
ResultStep(l) == HandlingResult(l) /\ lpc'[l] # lpc[l]

\* C1: when invoke_tool returns the timeout error, its message id is in
\* neither tool_events nor tool_results at that return, whatever the listener
\* did in between.
C1_TimeoutLeavesNoEntry ==
    [][\A t \in Threads :
          TimeoutReturnStep(t) =>
              /\ tool_events'[mid[t]] = "absent"
              /\ tool_results'[mid[t]] = NoData]_vars

\* C2: while it handles a tool_result, the listener never ends: whatever a
\* timed-out caller removed in the meantime, its step raises nothing, leaves
\* running alone and takes it back to (or further along) its receive loop.
C2_ListenerSurvivesRace ==
    [][\A l \in Listeners :
          ResultStep(l) => lpc'[l] # "dead" /\ running' = running]_vars

\* C3: a tool_result whose id has no pending request is discarded: when the
\* listener is through with it, neither table holds anything for that id.
C3_UnmatchedResultDiscarded ==
    [][\A l \in Listeners :
          (ResultStep(l) /\ lpc'[l] = "read" /\ tool_events'[lev[l].id] = "absent")
              => tool_results'[lev[l].id] = NoData]_vars

\* C4: handling a tool_result for id X leaves the entries of every other id
\* as they were: no other wait primitive is signalled, no other stored result
\* is added, altered or removed.
C4_OtherEntriesUntouched ==
    [][\A l \in Listeners :
          ResultStep(l) =>
              \A k \in Keys \ {lev[l].id} :
                  /\ tool_events'[k] = tool_events[k]
                  /\ tool_results'[k] = tool_results[k]]_vars

\* The listener has resolved one request while another is still pending.
C4_Witness ==
    \E k1, k2 \in MsgIds :
        /\ tool_events[k1] = "set"
        /\ tool_results[k1] # NoData
        /\ tool_events[k2] = "clear"
        /\ \E t \in Threads : pc[t] = "i165" /\ mid[t] = k2

\* The result the server computed for invocation k, as extracted by invoke_tool.
PayloadOf(k) == [id |-> k, shape |-> result_shape]
FormOf(shape) ==
    IF shape = "json" THEN "parsed" ELSE IF shape = "text" THEN "text" ELSE "event"

C6_OnlyOwnResultOnce ==
    [][\A t \in Threads :
          /\ (pc[t] = "i174" /\ pc'[t] = "done" /\ ret'[t].kind = "result") =>
                 /\ ret'[t].data.id = mid[t]
                 /\ \A u \in Threads \ {t} : ret'[u].data.id # ret'[t].data.id
          /\ (pc[t] = "idle" /\ pc'[t] = "i193") =>
                 /\ mid'[t] > nextId
                 /\ nextId' = mid'[t]
                 /\ \A u \in Threads \ {t} : mid[u] # mid'[t]]_vars

\* Two concurrent calls have both returned a stream result, each its own.
C6_Witness ==
    /\ \A t \in Threads : pc[t] = "done" /\ ret[t].kind = "result"
    /\ \E t, u \in Threads : ret[t].data.id # ret[u].data.id

\* C7: the entry for a call's message id is in tool_events when its POST is
\* issued; an entry is only ever inserted for a freshly generated id, so once
\* per id; and the listener only handles results for ids already registered.
C7_RegisteredBeforeDispatch ==
    [][/\ \A t \in Threads : PostStep(t) => tool_events[mid[t]] # "absent"
       /\ \A k \in Keys :
              (tool_events[k] = "absent" /\ tool_events'[k] # "absent") =>
                  k = nextId + 1 /\ nextId' = nextId + 1
       /\ \A l \in Listeners :
              (lev'[l].type = "tool_result" /\ lev'[l].id \in MsgIds) =>
                  lev'[l].id <= nextId /\ posted[lev'[l].id] # NotPosted]_vars

\* A request has been sent with its entry registered, and its result is being
\* handled by the listener.
C7_Witness ==
    \E t \in Threads, l \in Listeners :
        /\ pc[t] = "i165"
        /\ posted[mid[t]] # NotPosted
        /\ tool_events[mid[t]] = "clear"
        /\ lev[l].type = "tool_result"
        /\ lev[l].id = mid[t]

\* The client as its callers know it: disconnected before any connect(),
\* after a connect() that failed, and after disconnect(), while no connect()
\* is under way.
FacadeDisconnected ==
    /\ lastLife.op \in {"none", "connect_failed", "disconnect"}
    /\ Connecting = {}

\* C8: an invoke_tool call that reaches its connection check while the client
\* is disconnected returns the not-connected error there and then, and no
\* POST reaches the server.
C8_DisconnectedInvokeFailsFast ==
    [][\A t \in Threads :
          (pc[t] = "i193" /\ pc'[t] # "i193" /\ FacadeDisconnected) =>
              /\ pc'[t] = "done"
              /\ ret'[t].kind = "not_connected"
              /\ posted' = posted]_vars

\* C9: when dispatch fails (not connected, the POST raises, or the
\* acknowledgment carries an error), invoke_tool returns with its message id
\* absent from the correlation table.
C9_FailedDispatchLeavesNoEntry ==
    [][\A t \in Threads :
          DispatchFailStep(t) =>
              /\ tool_events'[mid[t]] = "absent"
              /\ tool_results'[mid[t]] = NoData]_vars

\* C10: connect() on a client whose last connect() returned a session
\* identity, and which has not been disconnected since, returns that same
\* identity and starts no listener.
C10_ReconnectSameIdentity ==
    [][\A t \in Threads :
          (/\ pc[t] = "idle" /\ pc'[t] = "done" /\ ret'[t].kind = "connect_ok"
           /\ lastLife.op = "connect_ok" /\ lastLife.cid # None) =>
              /\ ret'[t].cid = lastLife.cid
              /\ lpc' = lpc]_vars

\* ---- the session's lifecycle ----------------------------------------------
\* Listener l has handled its stream's connected event to the end (lines 91-94).
Handshaken(l) ==
    /\ l \in Listeners
    /\ lgot[l]
    /\ lpc[l] \notin {"l91", "l92", "l94"}
\* connect()'s handshake wait ends, and connect() returns normally (line 70).
ConnectWaitEnds(t) == pc[t] = "c67" /\ pc'[t] # "c67"
ConnectReturnStep(t) == pc[t] = "c70" /\ pc'[t] = "done"
LiveListeners == {l \in Listeners : lpc[l] \notin {"unstarted", "dead"}}

\* C11: when the listener connect() started has handled a connected event
\* carrying clientId c by the time connect() returns, connect() returns c and
\* at that return connected is true and client_id is c.
C11_ConnectReturnsHandshakeId ==
    [][\A t \in Threads :
          (ConnectReturnStep(t) /\ Handshaken(sse_thread)) =>
              /\ ret'[t].cid = sse_thread
              /\ connected'
              /\ client_id' = sse_thread]_vars

\* C12: a handshake wait that ends with no connected event handled makes
\* connect() fail with the timeout error, and connect() never returns
\* normally with the identity None.
C12_NoHandshakeRaisesTimeout ==
    [][\A t \in Threads :
          /\ (ConnectWaitEnds(t) /\ \A l \in Listeners : ~Handshaken(l)) =>
                 pc'[t] = "done" /\ ret'[t].kind = "connect_timeout"
          /\ ConnectReturnStep(t) => ret'[t].cid # None]_vars

\* C13: from a connect() that failed with the timeout error until the next
\* connect() call, the client is disconnected: connected is false and
\* client_id is unset, whatever the listener of the failed call receives.
C13_FailedConnectStaysDisconnected ==
    (lastLife.op = "connect_failed" /\ Connecting = {}) =>
        (~connected /\ client_id = None)

\* C14: a connect() after a successful connect() and a disconnect() waits for
\* the connected event of the listener it started: its wait does not end
\* normally before that handshake, and it returns that stream's identity.
C14_ReconnectWaitsForHandshake ==
    [][\A t \in Threads :
          (lastLife.op = "disconnect" /\ lastLife.cid # None) =>
              /\ (ConnectWaitEnds(t) /\ pc'[t] = "c70") =>
                     Handshaken(sse_thread)
              /\ ConnectReturnStep(t) =>
                     ret'[t].cid = sse_thread /\ Handshaken(sse_thread)]_vars

\* The steps of a disconnect() call by t.
DisconnectSteps(t) ==
    \/ pc[t] = "idle" /\ pc'[t] = "d226"
    \/ pc[t] = "d226" /\ pc'[t] = "d229"
    \/ pc[t] = "d229" /\ pc'[t] = "done"

\* C15: when disconnect() returns, connected is false and client_id and the
\* tools cache are unset; a disconnect() on a client that never connected, or
\* that was disconnected last, changes nothing of the session state.
C15_DisconnectClearsIdempotent ==
    [][\A t \in Threads :
          /\ (pc[t] = "d229" /\ pc'[t] = "done") =>
                 (~connected' /\ client_id' = None /\ tools_cache' = "unset")
          /\ (DisconnectSteps(t) /\ lastLife.op \in {"none", "disconnect"}) =>
                 session' = session]_vars

\* C16: at most one listener thread is alive at any moment.
C16_AtMostOneListener == Cardinality(LiveListeners) <= 1

\* C17: when the listener's transport fails while the client is running,
\* before or after the handshake, connected is false afterwards, the
\* handshake wait is signalled and the listener has ended.
C17_TransportFailureClearsConnected ==
    [][\A l \in Listeners :
          (lpc[l] = "read" /\ lpc'[l] = "dead" /\ running) =>
              /\ ~connected'
              /\ connection_event'
              /\ ~running']_vars

\* C18: handling a malformed payload (not JSON, or JSON that is not an object)
\* never ends the listener: it stays in its loop, and session state and the
\* correlation table are as before.
C18_MalformedPayloadIgnored ==
    [][\A l \in Listeners :
          (/\ lpc[l] \in {"l87", "l90"}
           /\ lev[l].type \in {"garbage", "nonobject"}
           /\ lpc'[l] # lpc[l]) =>
              /\ lpc'[l] \in {"l90", "read"}
              /\ session' = session
              /\ table' = table]_vars

\* C19: when the listener is through with an error event whose id has a
\* pending request, the event's payload is stored under that id and the
\* entry's wait primitive is signalled.
C19_ErrorEventResolvesRequest ==
    [][\A l \in Listeners :
          (/\ lpc[l] = "l90"
           /\ lev[l].type = "error"
           /\ tool_events[lev[l].id] # "absent"
           /\ lpc'[l] = "read") =>
              /\ tool_results'[lev[l].id] = EventData(lev[l])
              /\ tool_events'[lev[l].id] = "set"]_vars

\* The POST of t is acknowledged without an error and the server will push
\* nothing on the stream: the acknowledgment embeds the result.
EmbeddedAckStep(t) ==
    /\ pc[t] = "i203"
    /\ pc'[t] # "i203"
    /\ posted' = posted
    /\ ~(pc'[t] = "done" /\ ret'[t].kind \in {"transport_error", "ack_error"})

\* C20: when the acknowledgment of the POST embeds the tool's result,
\* invoke_tool returns that result at once, without waiting on the stream, and
\* its entry is no longer in the correlation table.
C20_EmbeddedResultReturnedAtOnce ==
    [][\A t \in Threads :
          EmbeddedAckStep(t) =>
              /\ pc'[t] = "done"
              /\ ret'[t].kind = "result"
              /\ tool_events'[mid[t]] = "absent"]_vars

\* ---- dispatch, identity and metadata --------------------------------------
\* C21: every POST the server receives from invoke_tool carries the session
\* identity the client holds at that moment, and that identity is not None.
C21_PostCarriesSessionIdentity ==
    [][\A k \in MsgIds :
          posted'[k] # posted[k] =>
              /\ posted'[k] # None
              /\ posted'[k] = client_id]_vars

\* C22: once set, client_id keeps its value until disconnect() clears it.
C22_IdentityAssignedOnce ==
    [][(client_id # None /\ client_id' # client_id) =>
           /\ client_id' = None
           /\ \E t \in Threads : pc[t] = "d229" /\ pc'[t] = "done"]_vars

\* C24: while the tools cache holds the list of a successful fetch, no
\* get_tools() call goes on to GET /tools, and the cache changes only by
\* disconnect() clearing it.
C24_CachedToolsReused ==
    [][tools_cache # "unset" =>
           /\ \A t \in Threads : ~(pc[t] = "idle" /\ pc'[t] = "g132")
           /\ tools_cache' # tools_cache =>
                  /\ tools_cache' = "unset"
                  /\ \E t \in Threads : pc[t] = "d229" /\ pc'[t] = "done"]_vars

\* The steps of the waiting and cleaning-up part of invoke_tool (lines 165-175).
CallerWaitStep(t) ==
    /\ pc[t] \in {"i165", "i166", "i170", "i173", "i174"}
    /\ pc'[t] # pc[t]

\* C26: a call's wait ending (signalled or timed out) and its cleanup leave
\* every other id's entry and result, and every other call, as they were; and
\* a call whose entry is signalled can go on while another is still waiting.
C26_CallsWaitIndependently ==
    [][\A t \in Threads :
          /\ CallerWaitStep(t) =>
                 /\ \A k \in Keys \ {mid[t]} :
                        /\ tool_events'[k] = tool_events[k]
                        /\ tool_results'[k] = tool_results[k]
                 /\ \A u \in Threads \ {t} : pc'[u] = pc[u] /\ ret'[u] = ret[u]
          /\ (/\ pc[t] = "i165" /\ tool_events[mid[t]] = "set"
              /\ \E u \in Threads \ {t} :
                     pc[u] = "i165" /\ tool_events[mid[u]] = "clear") =>
                 ENABLED InvokeWaitSignalled(t)]_vars

\* One call has returned its result while the other is still waiting for its
\* own.
C26_Witness ==
    \E t, u \in Threads :
        /\ pc[t] = "done" /\ ret[t].kind = "result"
        /\ pc[u] = "i165" /\ tool_events[mid[u]] = "clear"
        /\ posted[mid[u]] # NotPosted

\* C27: nothing is retried: a call's POST is its id's first, and a call never
\* comes back to the POST; a listener starts only in connect()'s start step,
\* one per step; a listener that has ended stays ended and no stream is
\* opened a second time.
C27_NoAutomaticRetry ==
    [][/\ \A t \in Threads : PostStep(t) => posted[mid[t]] = NotPosted
       /\ \A t \in Threads : pc'[t] = "i203" => pc[t] \in {"i193", "i203"}
       /\ \A l \in Listeners :
              (lpc[l] = "unstarted" /\ lpc'[l] # "unstarted") =>
                  /\ \E t \in Threads : pc[t] = "c62" /\ pc'[t] = "c67"
                  /\ \A m \in Listeners \ {l} :
                         lpc[m] = "unstarted" => lpc'[m] = "unstarted"
       /\ \A l \in Listeners : lpc[l] = "dead" => lpc'[l] = "dead"
       /\ \A l \in Listeners : lgot[l] => lgot'[l]]_vars

\* The listener has ended and a call that was sent has timed out.
C27_Witness ==
    /\ \E l \in Listeners : lpc[l] = "dead"
    /\ \E t \in Threads :
           /\ pc[t] = "done" /\ ret[t].kind = "timeout"
           /\ posted[mid[t]] # NotPosted

\* The steps of a get_tools() or get_server_info() call by t.
MetadataSteps(t) ==
    \/ pc[t] = "idle" /\ pc'[t] = "g132"
    \/ pc[t] = "g132" /\ pc'[t] = "done"
    \/ /\ pc[t] = "idle" /\ pc'[t] = "done"
       /\ ret'[t].kind \in {"tools_cached", "info", "info_failed"}

\* C29: get_tools() and get_server_info() can start in every state of the
\* client in which their caller is free, and their steps leave client_id,
\* connected, the listener and the correlation table as they were.
C29_MetadataLeavesSessionAlone ==
    [][\A t \in Owners :
          /\ pc[t] = "idle" =>
                 /\ ENABLED (GetToolsCached(t) \/ GetToolsBegin(t))
                 /\ ENABLED GetServerInfo(t)
          /\ MetadataSteps(t) =>
                 /\ session' = session
                 /\ table' = table
                 /\ listenerVars' = listenerVars]_vars

\* get_tools() has fetched the list on a connected client with a request
\* pending.
C29_Witness ==
    /\ connected /\ client_id # None
    /\ \E k \in MsgIds : tool_events[k] = "clear"
    /\ \E t \in Owners : pc[t] = "done" /\ ret[t].kind = "tools_fetched"

\* C30: an entry that is signalled has its result stored; a call that woke on
\* its signal holds a result and never returns the 'No result received' error.
C30_SignalledMeansStored ==
    /\ \A k \in Keys : tool_events[k] = "set" => tool_results[k] # NoData
    /\ \A t \in Threads : pc[t] \in {"i173", "i174"} => tres[t] # NoData
    /\ \A t \in Threads : pc[t] = "done" => ret[t].kind # "no_result"

\* A call has woken on its signal and is about to read its result.
C30_Witness ==
    \E t \in Threads : pc[t] = "i170" /\ tool_events[mid[t]] = "set"

\* ---- progress -------------------------------------------------------------
Blocking(t) ==
    pc[t] \in {"c61", "c62", "c67", "c70",
               "i193", "i203", "i165", "i166", "i170", "i173", "i174"}

\* C23: every connect() call and every invoke_tool call that has started
\* eventually returns or raises, whether or not the server sends anything and
\* whether or not a listener is still alive.
C23_BlockingCallsTerminate ==
    \A t \in Threads : Blocking(t) ~> (pc[t] = "done")

\* C28: a listener that has taken an event can always take its next step,
\* whatever the callers are doing, and so is eventually through with the
\* event (back in its loop, or ended by an exception).
C28_ListenerNeverWaitsOnCaller ==
    /\ [](\A l \in Listeners : Handling(l) => ENABLED ListenerProgress(l))
    /\ \A l \in Listeners : Handling(l) ~> (lpc[l] \in {"read", "dead"})

\* The listener is handling the result of a call that is between its timeout
\* and its deregistration.
C28_Witness ==
    \E l \in Listeners, t \in Threads :
        /\ pc[t] = "i166"
        /\ lpc[l] \in {"l101", "l104", "l105"}
        /\ lev[l].id = mid[t]

\* ---- registration ---------------------------------------------------------
\* invoke_tool by t takes k as its message id.
TakesId(t, k) == pc[t] = "idle" /\ pc'[t] \in {"i193", "done"} /\ mid'[t] = k

\* C25: registering an id that is already in tool_events fails with a
\* duplicate-identifier error and leaves the entry as it was; no two calls in
\* progress have the same id.
C25_DuplicateIdRejected ==
    [][/\ \A t \in Threads, k \in MsgIds :
              (TakesId(t, k) /\ tool_events[k] # "absent") =>
                  /\ pc'[t] = "done"
                  /\ ret'[t].kind = "duplicate_id"
                  /\ tool_events' = tool_events
       /\ \A t, u \in Threads :
              (t # u /\ InCall(t) /\ InCall(u)) => mid[t] # mid[u]]_vars

\* ---- disconnect() against the listener and the callers --------------------
\* C31: in every state, connected being true implies client_id is set.
C31_ConnectedImpliesIdentity == connected => client_id # None

\* C32: the steps of disconnect() leave tool_events, tool_results and the other
\* callers as they were; a waiting call leaves its wait only signalled by the
\* listener or by its own timeout, and its return by timeout removes its own
\* entry.
C32_DisconnectKeepsPendingCalls ==
    [][/\ \A t \in Threads :
              DisconnectSteps(t) =>
                  /\ table' = table
                  /\ \A u \in Threads \ {t} : pc'[u] = pc[u] /\ ret'[u] = ret[u]
       /\ \A u \in Threads :
              (pc[u] = "i165" /\ pc'[u] # "i165") =>
                  \/ pc'[u] = "i170" /\ tool_events[mid[u]] = "set"
                  \/ pc'[u] = "i166" /\ tool_events[mid[u]] = "clear"
       /\ \A u \in Threads :
              TimeoutReturnStep(u) => tool_events'[mid[u]] = "absent"
       /\ \A k \in Keys :
              (tool_events[k] = "clear" /\ tool_events'[k] = "set") =>
                  \E l \in Listeners : lpc[l] = "l105" /\ lev[l].id = k]_vars

\* disconnect() has returned while a call that was sent is still waiting.
C32_Witness ==
    /\ \E t \in Owners : pc[t] = "done" /\ ret[t].kind = "disconnected"
    /\ \E u \in Threads :
           /\ pc[u] = "i165" /\ tool_events[mid[u]] = "clear"
           /\ posted[mid[u]] # NotPosted

\* C33: a get_tools() call whose GET fails returns the empty list and leaves
\* tools_cache as it was, holding no list; the next get_tools() call fetches
\* again.
C33_FailedFetchNotCached ==
    /\ [][\A t \in Owners :
             (pc[t] = "g132" /\ pc'[t] = "done"
                /\ ret'[t].kind = "tools_failed") =>
                 /\ ret'[t].form = "empty"
                 /\ tools_cache' = tools_cache
                 /\ ~Truthy(tools_cache')]_vars
    /\ [](\A t \in Owners :
             (pc[t] = "idle" /\ ~Truthy(tools_cache)) =>
                 ENABLED GetToolsBegin(t) /\ ~ENABLED GetToolsCached(t))

\* get_tools() has returned the empty list of a failed fetch.
C33_Witness ==
    \E t \in Owners :
        /\ pc[t] = "done" /\ ret[t].kind = "tools_failed"
        /\ tools_cache = "unset"

\* C34: when execute_remote_tool has returned after connect() started the
\* listener, disconnect() has been called, and no live listener is left with
\* running true.
C34_RemoteToolTearsDown ==
    \A t \in Owners :
        (RemoteReturned(t) /\ Started # {}) =>
            /\ lastLife.op = "disconnect"
            /\ ~(running /\ LiveListeners # {})

\* C35: a served read_file request returns startLine and endLine with
\* 0 <= startLine <= endLine <= totalLines - 1, totalLines the file's line
\* count, and its content is the file's lines startLine to endLine inclusive.
C35_LineRangeWithinFile ==
    response.done =>
        /\ 0 <= response.startLine
        /\ response.startLine <= response.endLine
        /\ response.endLine <= response.totalLines - 1
        /\ response.totalLines = request.lines
        /\ response.content =
               [i \in 1..(response.endLine - response.startLine + 1) |->
                    response.startLine + i - 1]

====
